---- MODULE Spec2Model ----
(***************************************************************************)
(* A model of the lexer of src/src/compiler/lexer/lexer.py.                *)
(*                                                                         *)
(* The source text is a sequence of one-character strings.  Python offsets *)
(* are zero-based: the character at Python offset i is source[i + 1].      *)
(* The only public operation of a Lexer is next_token; it is one action,   *)
(* NextToken, which runs the skipper and then the recognizer the current   *)
(* character dispatches to, exactly as the method does.                    *)
(***************************************************************************)
EXTENDS Integers, Sequences, FiniteSets, TLC

(***************************************************************************)
(* Bounds of the model.                                                    *)
(***************************************************************************)
\* longest source drawn from the general alphabet
MaxLen == 4
\* longest source drawn from the numeric alphabet
MaxNumLen == 4
\* longest source drawn from the operator and separator alphabet
MaxOpLen == 2
\* most pieces of a source built from identifier pieces
MaxIdentPieces == 3
\* most pieces of a source built from comment pieces
MaxCommentPieces == 4
\* most pieces of a source built from nested-comment pieces
MaxNestPieces == 6
\* calls of next_token that may return None before the model stops calling
MaxNoneCalls == 2

(***************************************************************************)
(* Characters: str.isalpha, str.isdigit and the literals of the lexer.     *)
(***************************************************************************)
Alpha ==
    {"a", "b", "c", "d", "e", "f", "g", "h", "i", "j", "k", "l", "m",
     "n", "o", "p", "q", "r", "s", "t", "u", "v", "w", "x", "y", "z",
     "A", "B", "C", "D", "E", "F", "G", "H", "I", "J", "K", "L", "M",
     "N", "O", "P", "Q", "R", "S", "T", "U", "V", "W", "X", "Y", "Z"}

Digit == {"0", "1", "2", "3", "4", "5", "6", "7", "8", "9"}

HexLetter == {"a", "b", "c", "d", "e", "f", "A", "B", "C", "D", "E", "F"}

is_identifier_char(c) == c = "_" \/ c \in Alpha \/ c \in Digit

is_numeric(c) == c \in Digit

\* is_hex without c.lower()
is_hex_nolower(c) == c \in Digit \/ c \in {"a", "b", "c", "d", "e", "f"}

is_hex(c) == c \in Digit \/ c \in HexLetter

(***************************************************************************)
(* The enumerations: member name |-> value (the spelling).                 *)
(***************************************************************************)
OperatorType ==
    ("MINUS" :> <<"-">>) @@ ("ASSIGN_MINUS" :> <<"-", "=">>) @@
    ("PLUS" :> <<"+">>) @@ ("ASSIGN_PLUS" :> <<"+", "=">>) @@
    ("MUL" :> <<"*">>) @@ ("ASSIGN_MUL" :> <<"*", "=">>) @@
    ("DIV" :> <<"/">>) @@ ("ASSIGN_DIV" :> <<"/", "=">>) @@
    ("MOD" :> <<"%">>) @@ ("ASSIGN_MOD" :> <<"%", "=">>) @@
    ("ASSIGN" :> <<"=">>)

SeparatorType ==
    ("PAREN_OPEN" :> <<"(">>) @@ ("PAREN_CLOSE" :> <<")">>) @@
    ("BRACE_OPEN" :> <<"{">>) @@ ("BRACE_CLOSE" :> <<"}">>) @@
    ("SEMICOLON" :> <<";">>)

KeywordType ==
    ("IF" :> <<"i", "f">>) @@ ("ELSE" :> <<"e", "l", "s", "e">>) @@
    ("WHILE" :> <<"w", "h", "i", "l", "e">>)

(***************************************************************************)
(* Tokens.  Every token is a record of one shape: kind is the class, type  *)
(* the enumeration member (op_type, sep_type, keyword_type), text the      *)
(* message, name or value, base the base of a NumberLiteral.               *)
(***************************************************************************)
Span(start_line, start_col, end_line, end_col) ==
    [start_line |-> start_line, start_col |-> start_col,
     end_line |-> end_line, end_col |-> end_col]

NoSpan == Span(0, 0, 0, 0)

None == [kind |-> "None", type |-> "", text |-> <<>>, base |-> 0, span |-> NoSpan]

NoCall == [kind |-> "NoCall", type |-> "", text |-> <<>>, base |-> 0, span |-> NoSpan]

ErrorToken(message, span) ==
    [kind |-> "ErrorToken", type |-> "", text |-> message, base |-> 0, span |-> span]

Operator(op_type, span) ==
    [kind |-> "Operator", type |-> op_type, text |-> <<>>, base |-> 0, span |-> span]

Separator(sep_type, span) ==
    [kind |-> "Separator", type |-> sep_type, text |-> <<>>, base |-> 0, span |-> span]

Identifier(name, span) ==
    [kind |-> "Identifier", type |-> "", text |-> name, base |-> 0, span |-> span]

Keyword(keyword_type, span) ==
    [kind |-> "Keyword", type |-> keyword_type, text |-> <<>>, base |-> 0, span |-> span]

NumberLiteral(value, base, span) ==
    [kind |-> "NumberLiteral", type |-> "", text |-> value, base |-> base, span |-> span]

(***************************************************************************)
(* Python helpers: len-clamped slicing, peek and has_more.  A lexer state  *)
(* L is the record [pos, line_start, line] of the Lexer's cursor fields.   *)
(***************************************************************************)
Min(a, b) == IF a < b THEN a ELSE b

Max(a, b) == IF a > b THEN a ELSE b

\* source[a:b] of Python
PySlice(s, a, b) ==
    LET n == Len(s)
        lo == IF a < 0 THEN Max(n + a, 0) ELSE Min(a, n)
        hi == IF b < 0 THEN Max(n + b, 0) ELSE Min(b, n)
    IN SubSeq(s, lo + 1, hi)

\* has_more with <= for <
has_more_le(src, L, offset) == L.pos + offset <= Len(src)

has_more(src, L, offset) == L.pos + offset < Len(src)

peek(src, L, offset) == src[L.pos + offset + 1]

\* build_span without the final self.pos += proceed
build_span_stuck(L, proceed) ==
    [span |-> Span(L.line, L.pos - L.line_start,
                   L.line, (L.pos - L.line_start) + proceed),
     lex |-> L]

\* build_span with end_col = proceed instead of start_col + proceed
build_span_relative(L, proceed) ==
    [span |-> Span(L.line, L.pos - L.line_start, L.line, proceed),
     lex |-> [L EXCEPT !.pos = @ + proceed]]

build_span(L, proceed) ==
    [span |-> Span(L.line, L.pos - L.line_start,
                   L.line, (L.pos - L.line_start) + proceed),
     lex |-> [L EXCEPT !.pos = @ + proceed]]

(***************************************************************************)
(* skip_whitespace.  K is the record of the skipper's locals next to the   *)
(* cursor: current_comment_type ("NONE" for Python's None), the depth, the *)
(* comment start and whether the loop has returned.  skip_step is one      *)
(* iteration of the while loop, taken when has_more(0) holds.              *)
(***************************************************************************)
\* skip_step whose // test lacks "and current_comment_type is None"
skip_step_anyslash(src, K) ==
    LET L == K.lex
        ch == peek(src, L, 0)
        adv(n) == [L EXCEPT !.pos = @ + n]
    IN
    IF ch \in {" ", "\t"} THEN
        [K EXCEPT !.lex = adv(1)]
    ELSE IF ch \in {"\n", "\r"} THEN
        [K EXCEPT !.lex = [pos |-> L.pos + 1, line_start |-> L.pos + 1,
                           line |-> L.line + 1],
                  !.current_comment_type =
                      IF @ = "SINGLE_LINE" THEN "NONE" ELSE @]
    ELSE IF ch = "/" THEN
        IF K.current_comment_type = "SINGLE_LINE" THEN
            [K EXCEPT !.lex = adv(1)]
        ELSE IF has_more(src, L, 1) THEN
            LET next_ch == peek(src, L, 1) IN
            IF next_ch = "/" THEN
                [K EXCEPT !.current_comment_type = "SINGLE_LINE",
                          !.comment_start = L.pos,
                          !.lex = adv(2)]
            ELSE IF next_ch = "*" THEN
                [K EXCEPT !.current_comment_type = "MULTI_LINE",
                          !.multi_line_comment_depth = @ + 1,
                          !.comment_start = L.pos,
                          !.lex = adv(2)]
            ELSE IF K.current_comment_type = "MULTI_LINE" THEN
                [K EXCEPT !.lex = adv(1)]
            ELSE
                [K EXCEPT !.returned = TRUE]
        ELSE IF K.multi_line_comment_depth > 0 THEN
            [K EXCEPT !.lex = adv(1)]
        ELSE
            [K EXCEPT !.returned = TRUE]
    ELSE
        IF K.current_comment_type = "MULTI_LINE" THEN
            IF ch = "*" /\ has_more(src, L, 1) /\ peek(src, L, 1) = "/" THEN
                [K EXCEPT !.lex = adv(2),
                          !.multi_line_comment_depth = @ - 1,
                          !.current_comment_type =
                              IF K.multi_line_comment_depth - 1 = 0
                              THEN "NONE" ELSE "MULTI_LINE"]
            ELSE
                [K EXCEPT !.lex = adv(1)]
        ELSE IF K.current_comment_type = "SINGLE_LINE" THEN
            [K EXCEPT !.lex = adv(1)]
        ELSE
            [K EXCEPT !.returned = TRUE]

\* skip_step whose */ leaves the block comment whatever the depth
skip_step_flat(src, K) ==
    LET L == K.lex
        ch == peek(src, L, 0)
        adv(n) == [L EXCEPT !.pos = @ + n]
    IN
    IF ch \in {" ", "\t"} THEN
        [K EXCEPT !.lex = adv(1)]
    ELSE IF ch \in {"\n", "\r"} THEN
        [K EXCEPT !.lex = [pos |-> L.pos + 1, line_start |-> L.pos + 1,
                           line |-> L.line + 1],
                  !.current_comment_type =
                      IF @ = "SINGLE_LINE" THEN "NONE" ELSE @]
    ELSE IF ch = "/" THEN
        IF K.current_comment_type = "SINGLE_LINE" THEN
            [K EXCEPT !.lex = adv(1)]
        ELSE IF has_more(src, L, 1) THEN
            LET next_ch == peek(src, L, 1) IN
            IF next_ch = "/" /\ K.current_comment_type = "NONE" THEN
                [K EXCEPT !.current_comment_type = "SINGLE_LINE",
                          !.comment_start = L.pos,
                          !.lex = adv(2)]
            ELSE IF next_ch = "*" THEN
                [K EXCEPT !.current_comment_type = "MULTI_LINE",
                          !.multi_line_comment_depth = @ + 1,
                          !.comment_start = L.pos,
                          !.lex = adv(2)]
            ELSE IF K.current_comment_type = "MULTI_LINE" THEN
                [K EXCEPT !.lex = adv(1)]
            ELSE
                [K EXCEPT !.returned = TRUE]
        ELSE IF K.multi_line_comment_depth > 0 THEN
            [K EXCEPT !.lex = adv(1)]
        ELSE
            [K EXCEPT !.returned = TRUE]
    ELSE
        IF K.current_comment_type = "MULTI_LINE" THEN
            IF ch = "*" /\ has_more(src, L, 1) /\ peek(src, L, 1) = "/" THEN
                [K EXCEPT !.lex = adv(2),
                          !.multi_line_comment_depth = @ - 1,
                          !.current_comment_type = "NONE"]
            ELSE
                [K EXCEPT !.lex = adv(1)]
        ELSE IF K.current_comment_type = "SINGLE_LINE" THEN
            [K EXCEPT !.lex = adv(1)]
        ELSE
            [K EXCEPT !.returned = TRUE]

skip_step(src, K) ==
    LET L == K.lex
        ch == peek(src, L, 0)
        adv(n) == [L EXCEPT !.pos = @ + n]
    IN
    IF ch \in {" ", "\t"} THEN
        [K EXCEPT !.lex = adv(1)]
    ELSE IF ch \in {"\n", "\r"} THEN
        [K EXCEPT !.lex = [pos |-> L.pos + 1, line_start |-> L.pos + 1,
                           line |-> L.line + 1],
                  !.current_comment_type =
                      IF @ = "SINGLE_LINE" THEN "NONE" ELSE @]
    ELSE IF ch = "/" THEN
        IF K.current_comment_type = "SINGLE_LINE" THEN
            [K EXCEPT !.lex = adv(1)]
        ELSE IF has_more(src, L, 1) THEN
            LET next_ch == peek(src, L, 1) IN
            IF next_ch = "/" /\ K.current_comment_type = "NONE" THEN
                [K EXCEPT !.current_comment_type = "SINGLE_LINE",
                          !.comment_start = L.pos,
                          !.lex = adv(2)]
            ELSE IF next_ch = "*" THEN
                [K EXCEPT !.current_comment_type = "MULTI_LINE",
                          !.multi_line_comment_depth = @ + 1,
                          !.comment_start = L.pos,
                          !.lex = adv(2)]
            ELSE IF K.current_comment_type = "MULTI_LINE" THEN
                [K EXCEPT !.lex = adv(1)]
            ELSE
                [K EXCEPT !.returned = TRUE]
        ELSE IF K.multi_line_comment_depth > 0 THEN
            [K EXCEPT !.lex = adv(1)]
        ELSE
            [K EXCEPT !.returned = TRUE]
    ELSE
        IF K.current_comment_type = "MULTI_LINE" THEN
            IF ch = "*" /\ has_more(src, L, 1) /\ peek(src, L, 1) = "/" THEN
                [K EXCEPT !.lex = adv(2),
                          !.multi_line_comment_depth = @ - 1,
                          !.current_comment_type =
                              IF K.multi_line_comment_depth - 1 = 0
                              THEN "NONE" ELSE "MULTI_LINE"]
            ELSE
                [K EXCEPT !.lex = adv(1)]
        ELSE IF K.current_comment_type = "SINGLE_LINE" THEN
            [K EXCEPT !.lex = adv(1)]
        ELSE
            [K EXCEPT !.returned = TRUE]

RECURSIVE skip_loop(_, _)
skip_loop(src, K) ==
    IF K.returned \/ ~has_more(src, K.lex, 0) THEN K
    ELSE skip_loop(src, skip_step(src, K))

skip_start(L) ==
    [lex |-> L, current_comment_type |-> "NONE",
     multi_line_comment_depth |-> 0, comment_start |-> -1,
     returned |-> FALSE]

\* skip_whitespace that puts the cursor back on the comment it reports
skip_whitespace_rewind(src, L) ==
    LET K == skip_loop(src, skip_start(L)) IN
    IF ~K.returned /\ ~has_more(src, K.lex, 0)
          /\ K.current_comment_type = "MULTI_LINE"
    THEN LET b == build_span(K.lex, 0) IN
         [error |-> ErrorToken(PySlice(src, K.comment_start, Len(src)), b.span),
          lex |-> [b.lex EXCEPT !.pos = K.comment_start]]
    ELSE [error |-> None, lex |-> K.lex]

\* the result is [error, lex]: the ErrorToken or None, and the cursor after
skip_whitespace(src, L) ==
    LET K == skip_loop(src, skip_start(L)) IN
    IF ~K.returned /\ ~has_more(src, K.lex, 0)
          /\ K.current_comment_type = "MULTI_LINE"
    THEN LET b == build_span(K.lex, 0) IN
         [error |-> ErrorToken(PySlice(src, K.comment_start, Len(src)), b.span),
          lex |-> b.lex]
    ELSE [error |-> None, lex |-> K.lex]

(***************************************************************************)
(* The recognizers.  Each returns [tok, lex]: the token and the cursor     *)
(* after it.                                                               *)
(***************************************************************************)
\* a loop "while self.has_more(0) and test(self.peek()): self.pos += 1",
\* with ok the set of offsets of src whose character passes the test
advance_over(src, L, ok) ==
    LET stop == CHOOSE q \in L.pos .. Max(L.pos, Len(src)) :
                   /\ \A r \in L.pos .. (q - 1) : r \in ok
                   /\ q \notin ok
    IN [L EXCEPT !.pos = stop]

consume_identifier_chars(src, L) ==
    advance_over(src, L,
        {i \in 0 .. (Len(src) - 1) : is_identifier_char(src[i + 1])})

consume_hex_digits(src, L) ==
    advance_over(src, L, {i \in 0 .. (Len(src) - 1) : is_hex(src[i + 1])})

consume_digits(src, L) ==
    advance_over(src, L, {i \in 0 .. (Len(src) - 1) : is_numeric(src[i + 1])})

\* separator with a span of two characters
separator_wide(L, sep_type) ==
    LET b == build_span(L, 2) IN [tok |-> Separator(sep_type, b.span), lex |-> b.lex]

separator(L, sep_type) ==
    LET b == build_span(L, 1) IN [tok |-> Separator(sep_type, b.span), lex |-> b.lex]

\* single_or_assign that never looks at the next character
single_or_assign_single(src, L, single, assign) ==
    LET b == build_span(L, 1) IN [tok |-> Operator(single, b.span), lex |-> b.lex]

single_or_assign(src, L, single, assign) ==
    IF has_more(src, L, 1) /\ peek(src, L, 1) = "="
    THEN LET b == build_span(L, 2) IN [tok |-> Operator(assign, b.span), lex |-> b.lex]
    ELSE LET b == build_span(L, 1) IN [tok |-> Operator(single, b.span), lex |-> b.lex]

\* the keyword test as a prefix test (id_str.startswith(value.keyword()))
keyword_match_prefix(value, id_str) ==
    PySlice(id_str, 0, Len(KeywordType[value])) = KeywordType[value]

\* value.keyword() == id_str
keyword_match(value, id_str) == KeywordType[value] = id_str

lex_identifier_or_keyword(src, L) ==
    LET start_pos == L.pos
        L1 == consume_identifier_chars(src, L)
        id_str == PySlice(src, start_pos, L1.pos)
        b == build_span(L1, L1.pos - start_pos)
    IN IF \E value \in DOMAIN KeywordType : keyword_match(value, id_str)
       THEN [tok |-> Keyword(CHOOSE value \in DOMAIN KeywordType :
                                 keyword_match(value, id_str), b.span),
             lex |-> b.lex]
       ELSE [tok |-> Identifier(id_str, b.span), lex |-> b.lex]

is_hex_prefix(src, L) ==
    peek(src, L, 0) = "0" /\ has_more(src, L, 1) /\ peek(src, L, 1) \in {"x", "X"}

lex_number(src, L) ==
    LET start_pos == L.pos IN
    IF is_hex_prefix(src, L) THEN
        LET L1 == consume_hex_digits(src, [L EXCEPT !.pos = @ + 2]) IN
        IF L1.pos - start_pos = 2
        THEN LET b == build_span(L1, 2) IN
             [tok |-> ErrorToken(PySlice(src, start_pos, L1.pos), b.span),
              lex |-> b.lex]
        ELSE LET b == build_span(L1, L1.pos - start_pos) IN
             [tok |-> NumberLiteral(PySlice(src, start_pos, L1.pos), 16, b.span),
              lex |-> b.lex]
    ELSE
        LET L1 == consume_digits(src, L)
            b == build_span(L1, L1.pos - start_pos)
        IN IF src[start_pos + 1] = "0" /\ L1.pos - start_pos > 1
           THEN [tok |-> ErrorToken(PySlice(src, start_pos, L1.pos), b.span),
                 lex |-> b.lex]
           ELSE [tok |-> NumberLiteral(PySlice(src, start_pos, L1.pos), 10, b.span),
                 lex |-> b.lex]

(***************************************************************************)
(* next_token.  The result is [tok, lex, start, skip_error]: the returned  *)
(* token (None at the end of the stream), the cursor after the call, the   *)
(* cursor position the skipper stopped at, and whether the token is the    *)
(* skipper's error.                                                        *)
(***************************************************************************)
next_token(src, L) ==
    LET sk == skip_whitespace(src, L)
        S == sk.lex
        out(r) == [tok |-> r.tok, lex |-> r.lex, start |-> S.pos,
                   skip_error |-> FALSE]
    IN
    IF sk.error # None THEN
        [tok |-> sk.error, lex |-> S, start |-> S.pos, skip_error |-> TRUE]
    ELSE IF S.pos >= Len(src) THEN
        [tok |-> None, lex |-> S, start |-> S.pos, skip_error |-> FALSE]
    ELSE
        LET current_char == peek(src, S, 0) IN
        IF current_char = "(" THEN out(separator(S, "PAREN_OPEN"))
        ELSE IF current_char = ")" THEN out(separator(S, "PAREN_CLOSE"))
        ELSE IF current_char = "{" THEN out(separator(S, "BRACE_OPEN"))
        ELSE IF current_char = "}" THEN out(separator(S, "BRACE_CLOSE"))
        ELSE IF current_char = ";" THEN out(separator(S, "SEMICOLON"))
        ELSE IF current_char = "-" THEN
            out(single_or_assign(src, S, "MINUS", "ASSIGN_MINUS"))
        ELSE IF current_char = "+" THEN
            out(single_or_assign(src, S, "PLUS", "ASSIGN_PLUS"))
        ELSE IF current_char = "*" THEN
            out(single_or_assign(src, S, "MUL", "ASSIGN_MUL"))
        ELSE IF current_char = "/" THEN
            out(single_or_assign(src, S, "DIV", "ASSIGN_DIV"))
        ELSE IF current_char = "%" THEN
            out(single_or_assign(src, S, "MOD", "ASSIGN_MOD"))
        ELSE IF current_char = "=" THEN
            LET b == build_span(S, 1) IN
            out([tok |-> Operator("ASSIGN", b.span), lex |-> b.lex])
        ELSE IF is_identifier_char(current_char) THEN
            IF is_numeric(current_char) THEN out(lex_number(src, S))
            ELSE out(lex_identifier_or_keyword(src, S))
        ELSE
            LET b == build_span(S, 1) IN
            out([tok |-> ErrorToken(<<current_char>>, b.span), lex |-> b.lex])

(***************************************************************************)
(* The iterations of the skipper loop and the calls of peek.               *)
(* skip_trace is the sequence of the skipper's states at the head of the   *)
(* while loop, the last one being the state the loop ends in.  The _peeks  *)
(* definitions give the offsets pos + offset of the calls of peek that a   *)
(* step makes, under the guards the code makes them under; a peek out of   *)
(* range raises IndexError and ends the call, so nothing is read after it. *)
(***************************************************************************)
RECURSIVE skip_trace(_, _)
skip_trace(src, K) ==
    IF K.returned \/ ~has_more(src, K.lex, 0) THEN <<K>>
    ELSE <<K>> \o skip_trace(src, skip_step(src, K))

in_range(src, i) == 0 <= i /\ i < Len(src)

\* the peeks of one iteration of the skipper loop
skip_peeks(src, K) ==
    LET L == K.lex IN
    IF ~in_range(src, L.pos) THEN {L.pos}
    ELSE LET ch == peek(src, L, 0) IN
         {L.pos} \cup
         (IF /\ ch = "/"
             /\ K.current_comment_type # "SINGLE_LINE"
             /\ has_more(src, L, 1)
          THEN {L.pos + 1}
          ELSE IF /\ ch \notin {" ", "\t", "\n", "\r", "/"}
                  /\ K.current_comment_type = "MULTI_LINE"
                  /\ ch = "*"
                  /\ has_more(src, L, 1)
          THEN {L.pos + 1}
          ELSE {})

RECURSIVE skip_loop_peeks(_, _)
skip_loop_peeks(src, K) ==
    IF K.returned \/ ~has_more(src, K.lex, 0) THEN {}
    ELSE LET reads == skip_peeks(src, K) IN
         IF \E i \in reads : ~in_range(src, i) THEN reads
         ELSE reads \cup skip_loop_peeks(src, skip_step(src, K))

\* the peeks of a loop "while self.has_more(0) and test(self.peek())" that
\* starts in L and ends in L1
loop_peeks(src, L, L1) ==
    {i \in L.pos .. L1.pos : i < L1.pos \/ has_more(src, L1, 0)}

is_hex_prefix_peeks(src, L) ==
    {L.pos} \cup
    (IF in_range(src, L.pos) /\ peek(src, L, 0) = "0" /\ has_more(src, L, 1)
     THEN {L.pos + 1} ELSE {})

lex_number_peeks(src, L) ==
    LET pre == is_hex_prefix_peeks(src, L) IN
    IF \E i \in pre : ~in_range(src, i) THEN pre
    ELSE IF is_hex_prefix(src, L)
    THEN LET L2 == [L EXCEPT !.pos = @ + 2] IN
         pre \cup loop_peeks(src, L2, consume_hex_digits(src, L2))
    ELSE pre \cup loop_peeks(src, L, consume_digits(src, L))

single_or_assign_peeks(src, L) ==
    IF has_more(src, L, 1) THEN {L.pos + 1} ELSE {}

next_token_peeks(src, L) ==
    LET skipped == skip_loop_peeks(src, skip_start(L)) IN
    IF \E i \in skipped : ~in_range(src, i) THEN skipped
    ELSE LET sk == skip_whitespace(src, L)
             S == sk.lex
         IN IF sk.error # None \/ S.pos >= Len(src) THEN skipped
            ELSE LET current_char == peek(src, S, 0) IN
                 skipped \cup {S.pos} \cup
                 (IF current_char \in {"(", ")", "{", "}", ";", "="} THEN {}
                  ELSE IF current_char \in {"-", "+", "*", "/", "%"}
                  THEN single_or_assign_peeks(src, S)
                  ELSE IF is_identifier_char(current_char)
                  THEN IF is_numeric(current_char)
                       THEN lex_number_peeks(src, S)
                       ELSE loop_peeks(src, S, consume_identifier_chars(src, S))
                  ELSE {})

(***************************************************************************)
(* The source texts a Lexer is constructed on.                             *)
(***************************************************************************)
Words(A, n) == UNION {[1 .. k -> A] : k \in 0 .. n}

RECURSIVE Concat(_)
Concat(w) == IF w = <<>> THEN <<>> ELSE Head(w) \o Concat(Tail(w))

GeneralChars == {" ", "\n", "/", "*", "=", ";", "0", "a", "#"}

NumChars == {"0", "7", "x", "X", "a", "F", "g", " "}

OpChars ==
    {"-", "+", "*", "/", "%", "=", "(", ")", "{", "}", ";", " ", "\t", "a"}

IdentPieces ==
    {KeywordType["IF"], KeywordType["ELSE"], KeywordType["WHILE"],
     <<"f">>, <<"I">>, <<"_">>, <<"0">>, <<" ">>}

CommentPieces ==
    {<<"/", "*">>, <<"*", "/">>, <<"/", "/">>, <<"\n">>, <<"\r">>, <<"a">>}

NestPieces == {<<"/", "*">>, <<"*", "/">>, <<"/", "/">>, <<"a">>}

Sources ==
    {Concat(w) : w \in Words(NestPieces, MaxNestPieces)}
    \cup Words(GeneralChars, MaxLen)
    \cup Words(NumChars, MaxNumLen)
    \cup Words(OpChars, MaxOpLen)
    \cup {Concat(w) : w \in Words(IdentPieces, MaxIdentPieces)}
    \cup {Concat(w) : w \in Words(CommentPieces, MaxCommentPieces)}

(***************************************************************************)
(* The state: the Lexer's fields, and what the last call of next_token did *)
(* (its result, the result of the call before it, the cursor before the    *)
(* call, where the skipper stopped) and the number of calls made.          *)
(***************************************************************************)
VARIABLES source, pos, line_start, line, ret, prev, pos0, tokStart, skipErr,
          calls, noneCalls

vars == <<source, pos, line_start, line, ret, prev, pos0, tokStart, skipErr,
          calls, noneCalls>>

\* Lexer.__init__
Init ==
    /\ source \in Sources
    /\ pos = 0
    /\ line_start = 0
    /\ line = 0
    /\ ret = NoCall
    /\ prev = NoCall
    /\ pos0 = 0
    /\ tokStart = 0
    /\ skipErr = FALSE
    /\ calls = 0
    /\ noneCalls = 0

\* one call of Lexer.next_token
NextToken ==
    /\ noneCalls < MaxNoneCalls
    /\ LET r == next_token(source, [pos |-> pos, line_start |-> line_start,
                                    line |-> line])
       IN /\ pos' = r.lex.pos
          /\ line_start' = r.lex.line_start
          /\ line' = r.lex.line
          /\ ret' = r.tok
          /\ tokStart' = r.start
          /\ skipErr' = r.skip_error
          /\ noneCalls' = IF r.tok = None THEN noneCalls + 1 ELSE noneCalls
    /\ prev' = ret
    /\ pos0' = pos
    /\ calls' = calls + 1
    /\ UNCHANGED source

Next == NextToken

Spec == Init /\ [][Next]_vars

(***************************************************************************)
(* Vocabulary of the properties.                                           *)
(***************************************************************************)
IsToken(t) == t.kind \notin {"None", "NoCall"}

NonError(t) ==
    t.kind \in {"Identifier", "Keyword", "NumberLiteral", "Operator", "Separator"}

\* the literal text of a token: name, spelling, value, symbol or message
Literal(t) ==
    CASE t.kind = "Keyword" -> KeywordType[t.type]
      [] t.kind = "Operator" -> OperatorType[t.type]
      [] t.kind = "Separator" -> SeparatorType[t.type]
      [] OTHER -> t.text

\* the last call returned the skipper's unterminated-comment error
CommentError == ret.kind = "ErrorToken" /\ skipErr

\* the last call dispatched on the character at tokStart
Dispatched == IsToken(ret) /\ ~skipErr

\* the character the last call dispatched on
StartChar == source[tokStart + 1]

\* the column of tokStart on its line
StartCol == tokStart - line_start

LexLE(l1, c1, l2, c2) == l1 < l2 \/ (l1 = l2 /\ c1 <= c2)

\* the end of the maximal run of characters of the set C that starts at p
RunEnd(C, p) ==
    CHOOSE q \in p .. Len(source) :
        /\ \A r \in p .. (q - 1) : source[r + 1] \in C
        /\ (q = Len(source) \/ source[q + 1] \notin C)

IdentChars == Alpha \cup Digit \cup {"_"}

HexChars == Digit \cup HexLetter

\* the offsets of the block comments still open when the skipper run that
\* starts in K ends, outermost first
RECURSIVE OpenComments(_, _, _)
OpenComments(src, K, stack) ==
    IF K.returned \/ ~has_more(src, K.lex, 0) THEN stack
    ELSE LET K2 == skip_step(src, K)
             d == K.multi_line_comment_depth
             d2 == K2.multi_line_comment_depth
         IN OpenComments(src, K2,
                IF d2 > d THEN Append(stack, K.lex.pos)
                ELSE IF d2 < d THEN SubSeq(stack, 1, Len(stack) - 1)
                ELSE stack)

LastOpenComments ==
    OpenComments(source,
                 skip_start([pos |-> pos0, line_start |-> 0, line |-> 0]), <<>>)

(***************************************************************************)
(* C1 - Span correctness: for every non-error token next_token returns,    *)
(* the source from offset line_start + span.start_col to offset            *)
(* line_start + span.end_col is the token's literal text.                  *)
(* The code violates it: the recognizers advance pos over the token and    *)
(* then build_span measures the span from the advanced pos.                *)
(***************************************************************************)
C1_SpanCorrect ==
    NonError(ret) =>
        PySlice(source, line_start + ret.span.start_col,
                line_start + ret.span.end_col) = Literal(ret)

(***************************************************************************)
(* C2 - Coverage: every call leaves the cursor just after the text of the  *)
(* token it returns (the skipper's error has no text of its own: its       *)
(* characters were consumed by the skipper), so that no character is       *)
(* jumped over or consumed twice, and the end of the stream is reported    *)
(* exactly at the end of the source.                                       *)
(* The code violates it: a recognized identifier, keyword or number moves  *)
(* the cursor twice the length of the token.                               *)
(***************************************************************************)
C2_Coverage ==
    /\ IsToken(ret) =>
          pos = tokStart + (IF skipErr THEN 0 ELSE Len(Literal(ret)))
    /\ ret = None => pos = Len(source)

(***************************************************************************)
(* C3 - Exhaustion is terminal: once a call has returned None every later  *)
(* call returns None, and the call that follows an unterminated-comment    *)
(* ErrorToken returns None as well.                                        *)
(***************************************************************************)
C3_ExhaustionTerminal ==
    [][/\ ret = None => ret' = None
       /\ CommentError => ret' = None]_vars

C3_Witness ==
    /\ noneCalls >= 2
    /\ ret = None
    /\ prev = None
    /\ skip_whitespace(source, [pos |-> 0, line_start |-> 0, line |-> 0]).error
           # None

(***************************************************************************)
(* C4 - Progress and termination: a call never moves pos backwards, a call *)
(* that returns a token (an ErrorToken included) moves it strictly         *)
(* forwards, and from call number len(source) + 1 on the result is None.   *)
(***************************************************************************)
C4_Progress ==
    /\ pos >= pos0
    /\ IsToken(ret) => pos > pos0
    /\ calls >= Len(source) + 1 => ret = None

C4_Witness ==
    /\ calls = Len(source) + 1
    /\ ret = None
    /\ prev.kind = "ErrorToken"
    /\ Len(source) >= 2

(***************************************************************************)
(* C5 - Span ordering: every token's span starts no later than it ends,    *)
(* and the token of a call starts no earlier than the token of the call    *)
(* before it ends, in the lexicographic order of (line, column).           *)
(***************************************************************************)
C5_SpanOrdering ==
    /\ IsToken(ret) =>
          LexLE(ret.span.start_line, ret.span.start_col,
                ret.span.end_line, ret.span.end_col)
    /\ (IsToken(prev) /\ IsToken(ret)) =>
          LexLE(prev.span.end_line, prev.span.end_col,
                ret.span.start_line, ret.span.start_col)

C5_Witness ==
    /\ IsToken(prev)
    /\ IsToken(ret)
    /\ ret.span.start_line > prev.span.end_line
    /\ ret.span.start_col < prev.span.end_col

(***************************************************************************)
(* C6 - Unterminated block comment: when the skipper reaches the end of    *)
(* the input inside a block comment, next_token returns an ErrorToken      *)
(* whose message is the source from the opening of the outermost comment   *)
(* still open to the end of the input, with a zero-width span at the       *)
(* current position.                                                       *)
(* The code violates it for nested comments: comment_start is overwritten  *)
(* by every later comment opening, also one that has been closed since.    *)
(***************************************************************************)
C6_UnterminatedComment ==
    calls >= 1 =>
        LET open == LastOpenComments IN
        /\ open # <<>> => CommentError
        /\ CommentError =>
              /\ open # <<>>
              /\ ret.text = PySlice(source, open[1], Len(source))
              /\ ret.span.start_col = ret.span.end_col
              /\ ret.span.start_line = line
              /\ ret.span.end_line = line
              /\ ret.span.start_col = pos - line_start

(***************************************************************************)
(* C7 - Compound operator greediness: when the call dispatches on one of   *)
(* - + * / %, the token is the ASSIGN_ operator over both characters if    *)
(* the next character is =, and the single operator over one character     *)
(* otherwise; the cursor moves by 2 and by 1.                              *)
(***************************************************************************)
SingleOf(c) ==
    CASE c = "-" -> "MINUS" [] c = "+" -> "PLUS" [] c = "*" -> "MUL"
      [] c = "/" -> "DIV" [] c = "%" -> "MOD"

AssignOf(c) ==
    CASE c = "-" -> "ASSIGN_MINUS" [] c = "+" -> "ASSIGN_PLUS"
      [] c = "*" -> "ASSIGN_MUL" [] c = "/" -> "ASSIGN_DIV"
      [] c = "%" -> "ASSIGN_MOD"

C7_CompoundGreedy ==
    (Dispatched /\ StartChar \in {"-", "+", "*", "/", "%"}) =>
        IF tokStart + 1 < Len(source) /\ source[tokStart + 2] = "="
        THEN /\ ret = Operator(AssignOf(StartChar),
                               Span(line, StartCol, line, StartCol + 2))
             /\ pos = tokStart + 2
        ELSE /\ ret = Operator(SingleOf(StartChar),
                               Span(line, StartCol, line, StartCol + 1))
             /\ pos = tokStart + 1

C7_Witness ==
    /\ Dispatched
    /\ StartChar = "/"
    /\ tokStart > 0
    /\ ret.type = "ASSIGN_DIV"

(***************************************************************************)
(* C8 - Numeric base partition: on a source that is 0x or 0X and one or    *)
(* more hex digits the first call returns the NumberLiteral of the whole   *)
(* source in base 16; on 0 the NumberLiteral 0 in base 10; on 0 and more   *)
(* decimal digits an ErrorToken; on any other run of decimal digits the    *)
(* NumberLiteral of the whole source in base 10.                           *)
(***************************************************************************)
AllIn(C, from) == \A i \in from .. Len(source) : source[i] \in C

IsHexSource ==
    /\ Len(source) >= 3
    /\ source[1] = "0"
    /\ source[2] \in {"x", "X"}
    /\ AllIn(HexChars, 3)

IsDecimalSource == Len(source) >= 1 /\ AllIn(Digit, 1)

C8_BasePartition ==
    calls = 1 =>
        /\ IsHexSource =>
              ret.kind = "NumberLiteral" /\ ret.text = source /\ ret.base = 16
        /\ source = <<"0">> =>
              ret.kind = "NumberLiteral" /\ ret.text = <<"0">> /\ ret.base = 10
        /\ (IsDecimalSource /\ Len(source) >= 2 /\ source[1] = "0") =>
              ret.kind = "ErrorToken"
        /\ (IsDecimalSource /\ source[1] # "0") =>
              ret.kind = "NumberLiteral" /\ ret.text = source /\ ret.base = 10

C8_Witness ==
    /\ calls = 1
    /\ IsHexSource
    /\ source[2] = "X"
    /\ source[Len(source)] = "F"
    /\ ret.base = 16

(***************************************************************************)
(* C9 - Keyword/identifier partition: when the call dispatches on a        *)
(* letter or underscore, with r the maximal run of identifier characters   *)
(* from there, the token is Keyword(IF), Keyword(ELSE) or Keyword(WHILE)   *)
(* exactly when r is if, else or while, and Identifier with name r         *)
(* otherwise.                                                              *)
(***************************************************************************)
C9_KeywordPartition ==
    (Dispatched /\ is_identifier_char(StartChar) /\ ~is_numeric(StartChar)) =>
        LET r == PySlice(source, tokStart, RunEnd(IdentChars, tokStart)) IN
        /\ \A k \in {"IF", "ELSE", "WHILE"} :
              (ret.kind = "Keyword" /\ ret.type = k) <=> (r = KeywordType[k])
        /\ ret.kind \in {"Keyword", "Identifier"}
        /\ ret.kind = "Identifier" => ret.text = r

C9_Witness ==
    /\ Dispatched
    /\ ret.kind = "Identifier"
    /\ Len(ret.text) > 2
    /\ \E k \in {"IF", "ELSE", "WHILE"} :
          PySlice(ret.text, 0, Len(KeywordType[k])) = KeywordType[k]

(***************************************************************************)
(* C10 - Leading-zero decimal error: when the call dispatches on a 0 that  *)
(* starts a maximal run of k >= 2 decimal digits at column c (and is not a *)
(* hex prefix), the token is an ErrorToken whose message is the run and    *)
(* whose span is columns c to c + k of the line.                           *)
(* The code violates it: the span is measured from the end of the run,     *)
(* columns c + k to c + 2k.                                                *)
(***************************************************************************)
C10_LeadingZeroError ==
    LET e == RunEnd(Digit, tokStart) IN
    (Dispatched /\ StartChar = "0" /\ e - tokStart >= 2) =>
        /\ ret.kind = "ErrorToken"
        /\ ret.text = PySlice(source, tokStart, e)
        /\ ret.span = Span(line, StartCol, line, StartCol + (e - tokStart))

(***************************************************************************)
(* C11 - Malformed hex literal: when the call dispatches on 0x or 0X with  *)
(* no hex digit after it, the token is an ErrorToken whose message is the  *)
(* two-character prefix, whose span is the two columns of the prefix, and  *)
(* the cursor is left just after the prefix.                               *)
(* The code violates it: pos is advanced over the prefix before build_span *)
(* is called, so the span is the two columns after the prefix and the      *)
(* cursor is left four characters on.                                      *)
(***************************************************************************)
C11_MalformedHex ==
    (/\ Dispatched
     /\ StartChar = "0"
     /\ tokStart + 1 < Len(source)
     /\ source[tokStart + 2] \in {"x", "X"}
     /\ (tokStart + 2 >= Len(source) \/ source[tokStart + 3] \notin HexChars))
    =>
        /\ ret = ErrorToken(PySlice(source, tokStart, tokStart + 2),
                            Span(line, StartCol, line, StartCol + 2))
        /\ pos = tokStart + 2

(***************************************************************************)
(* C12 - Single-character tokens: when the call dispatches on one of       *)
(* ( ) { } ; the token is the matching Separator, and on = it is           *)
(* Operator(ASSIGN); the span is the one column of the character and the   *)
(* cursor moves by exactly 1.                                              *)
(***************************************************************************)
SeparatorOf(c) ==
    CASE c = "(" -> "PAREN_OPEN" [] c = ")" -> "PAREN_CLOSE"
      [] c = "{" -> "BRACE_OPEN" [] c = "}" -> "BRACE_CLOSE"
      [] c = ";" -> "SEMICOLON"

C12_SingleCharTokens ==
    /\ (Dispatched /\ StartChar \in {"(", ")", "{", "}", ";"}) =>
          /\ ret = Separator(SeparatorOf(StartChar),
                             Span(line, StartCol, line, StartCol + 1))
          /\ pos = tokStart + 1
    /\ (Dispatched /\ StartChar = "=") =>
          /\ ret = Operator("ASSIGN", Span(line, StartCol, line, StartCol + 1))
          /\ pos = tokStart + 1

\* == has given two ASSIGN operators, and a separator has been returned
\* right after them
C12_Witness ==
    /\ calls = 3
    /\ PySlice(source, 0, 2) = <<"=", "=">>
    /\ ret.kind = "Separator"
    /\ ret.span = Span(0, 2, 0, 3)
    /\ prev = Operator("ASSIGN", Span(0, 1, 0, 2))

(***************************************************************************)
(* Vocabulary of the properties about lines, comments and skipper runs.    *)
(***************************************************************************)
\* the cursor fields of the Lexer
Cur == [pos |-> pos, line_start |-> line_start, line |-> line]

\* the states of the skipper loop in the last call of next_token (their
\* line and line_start are counted from the start of the call)
LastRun ==
    skip_trace(source, skip_start([pos |-> pos0, line_start |-> 0, line |-> 0]))

Newline == {"\n", "\r"}

\* the offsets of the newline characters of source[0:n]
NewlinesBefore(n) ==
    {i \in 0 .. (Min(n, Len(source)) - 1) : source[i + 1] \in Newline}

\* the offset just after the last newline of source[0:n], 0 without one
LineStartBefore(n) ==
    LET nl == NewlinesBefore(n) IN
    IF nl = {} THEN 0 ELSE 1 + (CHOOSE i \in nl : \A j \in nl : j <= i)

\* the offsets of the characters of line comments, from the // that opens
\* one outside any comment to the newline that ends it, in the part of src
\* from the skipper state K on
RECURSIVE LineCommentScan(_, _)
LineCommentScan(src, K) ==
    IF ~has_more(src, K.lex, 0) THEN {}
    ELSE LET K2 == skip_step(src, K) IN
         IF K2.returned
         THEN LineCommentScan(src, skip_start([K.lex EXCEPT !.pos = @ + 1]))
         ELSE (IF \/ K.current_comment_type = "SINGLE_LINE"
                  \/ K2.current_comment_type = "SINGLE_LINE"
               THEN K.lex.pos .. (K2.lex.pos - 1) ELSE {})
              \cup LineCommentScan(src, K2)

LineCommentOffsets ==
    LineCommentScan(source, skip_start([pos |-> 0, line_start |-> 0, line |-> 0]))

\* the two characters at the cursor of the skipper state K ("" past the end)
CharAt(i) == IF i < Len(source) THEN source[i + 1] ELSE ""

(***************************************************************************)
(* C13 - Line comments produce no tokens: no returned token has a          *)
(* character between a // that occurs outside any comment and the newline  *)
(* that follows it (included); inside a line comment the skipper opens no  *)
(* block comment; a token is reported on the line that the newlines before *)
(* it make (for a // comment\nb: b on line 1).                             *)
(* The code violates it: after an identifier, keyword or number the cursor *)
(* is moved twice the length of the token and can land inside a line       *)
(* comment, or past the newline without counting the line.                 *)
(***************************************************************************)
C13_LineComments ==
    /\ Dispatched =>
          /\ \A i \in tokStart .. (tokStart + Len(Literal(ret)) - 1) :
                i \notin LineCommentOffsets
          /\ ret.span.start_line = Cardinality(NewlinesBefore(tokStart))
    /\ \A i \in 1 .. (IF calls >= 1 THEN Len(LastRun) - 1 ELSE 0) :
          LastRun[i].current_comment_type = "SINGLE_LINE" =>
              /\ LastRun[i + 1].multi_line_comment_depth = 0
              /\ LastRun[i + 1].current_comment_type # "MULTI_LINE"

(***************************************************************************)
(* C14 - Nested block comments follow the depth counter: in a skipper run  *)
(* every /* met outside a line comment adds 1 to the depth, every */ met   *)
(* inside a block comment takes 1 off and nothing else changes it; the     *)
(* skipper leaves the block-comment state exactly when the depth is back   *)
(* at 0 and returns no token start while the depth is positive; the end of *)
(* the input with a positive depth gives the unterminated-comment          *)
(* ErrorToken.                                                             *)
(***************************************************************************)
C14_NestedDepth ==
    calls >= 1 =>
    /\ \A i \in 1 .. (Len(LastRun) - 1) :
          LET K == LastRun[i]
              K2 == LastRun[i + 1]
              c1 == CharAt(K.lex.pos)
              c2 == CharAt(K.lex.pos + 1)
              opens == c1 = "/" /\ c2 = "*"
                       /\ K.current_comment_type # "SINGLE_LINE"
              closes == c1 = "*" /\ c2 = "/"
                        /\ K.current_comment_type = "MULTI_LINE"
          IN /\ K2.multi_line_comment_depth =
                    K.multi_line_comment_depth
                        + (IF opens THEN 1 ELSE IF closes THEN -1 ELSE 0)
             /\ K.current_comment_type = "MULTI_LINE" =>
                    ((K2.current_comment_type # "MULTI_LINE")
                        <=> (K2.multi_line_comment_depth = 0))
             /\ K.multi_line_comment_depth > 0 => ~K2.returned
    /\ (LastRun[Len(LastRun)].multi_line_comment_depth > 0) <=> CommentError

\* the last call went to depth 2, consumed a character between the inner and
\* the outer */, left the block comment and returned the identifier after it
C14_Witness ==
    \E i, j, k \in 1 .. Len(LastRun) :
        /\ calls >= 1
        /\ ret.kind = "Identifier"
        /\ i < j /\ j < k
        /\ LastRun[i].multi_line_comment_depth = 2
        /\ LastRun[j].multi_line_comment_depth = 1
        /\ CharAt(LastRun[j].lex.pos) = "a"
        /\ LastRun[k].multi_line_comment_depth = 0
        /\ LastRun[k].current_comment_type = "NONE"

(***************************************************************************)
(* C15 - Line bookkeeping: line is the number of newline characters of     *)
(* source[0:pos] and line_start is the offset just after the last of them  *)
(* (0 if there is none).                                                   *)
(* The code violates it: after an identifier, keyword or number the cursor *)
(* is moved twice the length of the token, by build_span, and can cross a  *)
(* newline without line and line_start being updated.                      *)
(***************************************************************************)
C15_LineBookkeeping ==
    /\ line = Cardinality(NewlinesBefore(pos))
    /\ line_start = LineStartBefore(pos)

(***************************************************************************)
(* C16 - peek is never called out of bounds: in every reachable state, the *)
(* call of next_token made from it calls peek(offset) only with            *)
(* 0 <= pos + offset < len(source).                                        *)
(***************************************************************************)
C16_PeekInBounds ==
    \A i \in next_token_peeks(source, Cur) : 0 <= i /\ i < Len(source)

\* after a call, the next call looks one character ahead at the last
\* character of the source
C16_Witness ==
    /\ calls >= 1
    /\ pos + 2 <= Len(source)
    /\ LET peeks == next_token_peeks(source, Cur) IN
       /\ Len(source) - 1 \in peeks
       /\ Len(source) - 2 \in peeks
       /\ next_token(source, Cur).start = Len(source) - 2

(***************************************************************************)
(* C17 - Unrecognized character: a call that dispatches on a character     *)
(* that is no separator, none of - + * / % = and no letter, digit or       *)
(* underscore returns the ErrorToken of that one character with the span   *)
(* of its one column, and leaves the cursor just after it, with line and   *)
(* line_start as the skipper left them.                                    *)
(***************************************************************************)
Unrecognized(c) ==
    c \notin {"(", ")", "{", "}", ";", "-", "+", "*", "/", "%", "="}
             \cup IdentChars

C17_UnrecognizedChar ==
    [][(Dispatched' /\ Unrecognized(StartChar')) =>
          LET S == skip_whitespace(source, Cur).lex
              col == S.pos - S.line_start
          IN /\ tokStart' = S.pos
             /\ ret' = ErrorToken(<<source[S.pos + 1]>>,
                                  Span(S.line, col, S.line, col + 1))
             /\ pos' = S.pos + 1
             /\ line' = S.line
             /\ line_start' = S.line_start]_vars

C17_Witness ==
    /\ Dispatched
    /\ Unrecognized(StartChar)
    /\ ret.kind = "ErrorToken"
    /\ line >= 1
    /\ StartCol >= 1
    /\ pos < Len(source)

(***************************************************************************)
(* C18 - Cursor bound: 0 <= line_start <= pos <= len(source) in every      *)
(* reachable state.                                                        *)
(* The code violates it: after an identifier, keyword or number pos is     *)
(* advanced twice the length of the token and can pass the end.            *)
(***************************************************************************)
C18_CursorBound ==
    /\ 0 <= line_start
    /\ line_start <= pos
    /\ pos <= Len(source)

(***************************************************************************)
(* C19 - Skipper-state invariant: at every iteration of the skipper loop   *)
(* the comment type is MULTI_LINE exactly when the depth is positive, the  *)
(* depth is never negative, and it is 0 in SINGLE_LINE and outside         *)
(* comments.                                                               *)
(***************************************************************************)
C19_SkipperState ==
    calls >= 1 =>
        \A i \in 1 .. Len(LastRun) :
            LET K == LastRun[i] IN
            /\ (K.current_comment_type = "MULTI_LINE")
                   <=> (K.multi_line_comment_depth > 0)
            /\ K.multi_line_comment_depth >= 0
            /\ K.current_comment_type \in {"SINGLE_LINE", "NONE"} =>
                   K.multi_line_comment_depth = 0

\* the last call met // inside a block comment, left the block comment and
\* then skipped a line comment
C19_Witness ==
    /\ calls >= 1
    /\ \E j, k \in 1 .. Len(LastRun) :
          /\ j < k
          /\ LastRun[j].current_comment_type = "MULTI_LINE"
          /\ CharAt(LastRun[j].lex.pos) = "/"
          /\ CharAt(LastRun[j].lex.pos + 1) = "/"
          /\ LastRun[k].current_comment_type = "SINGLE_LINE"

====
